---- MODULE Spec2Model ----
(***************************************************************************)
(* Model of tools/create_pr_or_update_existing_one.py: the CI helper that  *)
(* commits the updated constraint files, force-pushes the update branch    *)
(* and then creates or updates a pull request (scheduled / dispatched      *)
(* runs) or posts a comment on a contributor's pull request (comment /     *)
(* pull_request runs).                                                     *)
(*                                                                         *)
(* The script is sequential.  Its position is the sequence `todo` of the   *)
(* steps that remain to be executed (a continuation); every function of    *)
(* the script is an operator that yields its steps in program order.  An   *)
(* exception empties the continuation except for the `finally` clause of   *)
(* the enclosing cd() scope.  Every external interaction (git command,     *)
(* HTTP request, dependency query) is appended to `log` with its outcome.  *)
(*                                                                         *)
(* An optional value (Python None or a value) is a sequence of length at   *)
(* most one: <<>> is None, <<v>> is v.                                     *)
(***************************************************************************)
EXTENDS Integers, Sequences, FiniteSets, TLC

VARIABLES
    todo,        \* steps still to execute, in order
    exc,         \* TRUE when an exception is propagating / has ended the run
    cwd,         \* the process working directory
    cdStack,     \* current_dir saved by each active cd() scope, innermost first
    local,       \* local variables of main / create_pr_with_push / update_pr
    log,         \* external interactions of the current run, in order
    head,        \* branch checked out in the local clone
    commits,     \* commits made in the local clone: <<branch, message>>
    remoteRefs,  \* branches force-pushed so far: <<remote, branch>>
    openPRs,     \* the platform's open pull requests created by the script
    nextNumber,  \* the number the platform gives to the next pull request
    runs         \* number of runs started

vars == <<todo, exc, cwd, cdStack, local, log, head, commits, remoteRefs,
          openPRs, nextNumber, runs>>

-----------------------------------------------------------------------------
(* Bounds of the model: the longest answer of the dependency query, the    *)
(* longest answer of the open-PR lookup, the number of runs in a row.      *)

MaxDeps == 2
MaxOpen == 2
MaxRuns == 3

-----------------------------------------------------------------------------
(* Program constants. *)

BASE_URL == "https://api.github.com"

REPO_DIR == "tools/../napari_repo"

\* the directory the CI job starts the script in
StartDir == "workspace"

None == <<>>

Some(v) == <<v>>

\* f"{x}" of an optional string
str(x) == IF x = None THEN "None" ELSE x[1]

-----------------------------------------------------------------------------
(* Inputs: values of the environment variables, answers of the dependency  *)
(* query, answers of the platform.                                         *)

EventNames == {None, Some("schedule"), Some("workflow_dispatch"),
               Some("issue_comment"), Some("pull_request"), Some("push")}

ScheduledEvents == {Some("schedule"), Some("workflow_dispatch")}

BranchNames == {None, Some("main"), Some("feature-x")}

Tokens == {None, Some("ghp_token")}

\* GITHUB_REPOSITORY, as <<owner, name>> of "owner/name"
Repositories == {None, Some(<<"PartSeg", "napari">>)}

\* FULL_NAME
FullNames == {None, Some("contributor/napari")}

\* PR_NUMBER, as the characters of the string
PrNumberStrings == {None, Some(<<"4", "2">>), Some(<<"7">>),
                    Some(<<"a", "b", "c">>), Some(<<>>)}

PackageOrders == {<<"vispy", "numpy", "app-model", "pint">>,
                  <<"numpy", "vispy", "pint", "app-model">>}

\* the ordered lists of names the dependency query may return
DepLists == {SubSeq(o, 1, n) : o \in PackageOrders, n \in 0..MaxDeps}

\* values of the number field of the objects the lookup returns
PrNumbers == {0, 7, 42}

RECURSIVE Distinct(_)
Distinct(s) ==
    IF s = <<>> THEN TRUE
    ELSE (\A i \in 2..Len(s) : s[i] # s[1]) /\ Distinct(Tail(s))

\* the JSON lists the open-PR lookup may return: objects with a number field
Responses ==
    {r \in UNION {[1..n -> PrNumbers] : n \in 0..MaxOpen} : Distinct(r)}

\* the inputs of one run on any trigger
AnyRun ==
    [events |-> EventNames, branches |-> BranchNames, tokens |-> Tokens,
     repositories |-> Repositories, changed |-> DepLists, lookup_any |-> TRUE]

\* the inputs of the scheduled / dispatched runs of one repository; the
\* open-PR lookup is answered from the platform's state
ScheduledRun ==
    [events |-> ScheduledEvents \cup {None}, branches |-> BranchNames,
     tokens |-> {Some("ghp_token")}, repositories |-> {None},
     changed |-> {<<>>, <<"vispy", "numpy">>}, lookup_any |-> FALSE]

GitExit == {TRUE, FALSE}

\* the statuses with which the platform refuses a request
HttpError == {404, 500}

-----------------------------------------------------------------------------
(* Pure functions of the script. *)

RECURSIVE join(_, _)
\* sep.join(xs)
join(sep, xs) ==
    IF xs = <<>> THEN ""
    ELSE IF Len(xs) = 1 THEN xs[1]
    ELSE xs[1] \o sep \o join(sep, Tail(xs))

\* the grave accent U+0060 (a TLA+ string cannot hold it; this character
\* stands for it in every text of the model)
Backtick == "'"

\* the names, each wrapped in backticks, line 104
backticked(xs) == [i \in 1..Len(xs) |-> Backtick \o xs[i] \o Backtick]

commit_message_unordered(changed_direct) ==
    IF changed_direct = <<>> THEN "Update indirect dependencies"
    ELSE "Update " \o join(", ",
            backticked([i \in 1..Len(changed_direct) |->
                            changed_direct[Len(changed_direct) + 1 - i]]))

\* commit_message, lines 102-104: the text derived from the direct changes
commit_message(changed_direct) ==
    IF changed_direct = <<>> THEN "Update indirect dependencies"
    ELSE "Update " \o join(", ", backticked(changed_direct))

\* long_description, line 115
long_description(all_changed) ==
    "Updated packages: " \o join(", ", backticked(all_changed))

\* create_pr_with_push, lines 122-125
new_branch_name_for(branch_name) ==
    IF branch_name = "main" THEN "auto-update-dependencies"
    ELSE "auto-update-dependencies-" \o branch_name

\* os.environ.get(name, default)
environ_get(value, default) == IF value = None THEN default ELSE value[1]

full_name(repo) == repo[1] \o "/" \o repo[2]

\* repo.split('/')[0]
org_name(repo) == repo[1]

Digits == <<"0", "1", "2", "3", "4", "5", "6", "7", "8", "9">>

IsDigit(c) == \E d \in 1..10 : Digits[d] = c

DigitValue(c) == (CHOOSE d \in 1..10 : Digits[d] = c) - 1

RECURSIVE DecimalValue(_)
DecimalValue(cs) ==
    IF cs = <<>> THEN 0
    ELSE 10 * DecimalValue(SubSeq(cs, 1, Len(cs) - 1)) + DigitValue(cs[Len(cs)])

\* int(pr_number): None when it raises (TypeError on None, ValueError on a
\* string that is not a decimal number)
python_int(value) ==
    IF value = None THEN None
    ELSE IF value[1] # <<>> /\ \A i \in 1..Len(value[1]) : IsDigit(value[1][i])
         THEN Some(DecimalValue(value[1]))
         ELSE None

\* subprocess.run(..., check=True): execution continues iff the exit is zero
check_ignored(exit_ok) == TRUE

check(exit_ok) == exit_ok

raise_for_status_ignored(status) == TRUE

\* response.raise_for_status() raises on a 4xx or 5xx status: execution
\* continues iff the status is neither
raise_for_status(status) == status \notin 400..599

\* the platform performed the request
Succeeded(status) == status \in 200..299

\* the truth value of `pr_number := list_pr_for_branch(...)`, line 135
truthy(pr_number) == pr_number # None /\ pr_number[1] # 0

first_number_never(json) == None

\* list_pr_for_branch, lines 169-171
first_number(json) == IF json # <<>> THEN Some(json[1]) ELSE None

-----------------------------------------------------------------------------
(* The functions of the script as sequences of steps <<operation, argument>>. *)

S(op) == <<op, "">>

\* with cd(REPO_DIR): body
with_cd(body) == <<S("cd_enter")>> \o body \o <<S("cd_exit")>>

\* _setup_git_author, lines 33-46
setup_git_author == <<<<"git_config", "user.name">>, <<"git_config", "user.email">>>>

\* main, lines 273-293
main == <<S("main_env")>> \o setup_git_author \o <<S("main_dispatch")>>

\* create_commit, lines 49-57; with_branch is the truth value of branch_name
create_commit(with_branch) ==
    with_cd((IF with_branch THEN <<S("git_checkout")>> ELSE <<>>)
            \o <<S("git_add"), S("git_commit")>>)

push_always_origin(update) == with_cd(<<<<"git_push", "origin">>>>)

\* push, lines 60-91
push(update) ==
    with_cd(<<IF update THEN <<"git_push", "napari-bot">>
                        ELSE <<"git_push", "origin">>>>)

\* the call commit_message(branch_name), lines 94-104
commit_message_call == with_cd(<<<<"get_changed_dependencies", "direct">>>>)

\* the call long_description(branch_name), lines 107-115
long_description_call == with_cd(<<<<"get_changed_dependencies", "all">>>>)

create_pr_with_push_lookup_first ==
    <<S("create_pr_with_push_names")>> \o with_cd(<<S("git_checkout")>>)
    \o commit_message_call \o create_commit(FALSE)
    \o <<S("list_pr_for_branch"), S("create_pr_with_push_branch")>> \o push(FALSE)

\* create_pr_with_push up to the lookup, lines 118-137
create_pr_with_push ==
    <<S("create_pr_with_push_names")>> \o with_cd(<<S("git_checkout")>>)
    \o commit_message_call \o create_commit(FALSE) \o push(FALSE)
    \o <<S("list_pr_for_branch"), S("create_pr_with_push_branch")>>

\* update_own_pr, lines 148-157
update_own_pr == commit_message_call \o long_description_call \o <<S("update_own_pr_post")>>

\* create_pr, lines 174-196
create_pr == commit_message_call \o long_description_call \o <<S("create_pr_post")>>

\* update_pr, lines 220-257
update_pr ==
    <<S("get_pr_number"), S("update_pr_names")>>
    \o commit_message_call \o create_commit(TRUE)
    \o long_description_call \o <<S("update_pr_content")>>
    \o push(TRUE) \o <<S("add_comment_to_pr")>>

-----------------------------------------------------------------------------
(* State after the process starts. *)

NoLocals ==
    [event_name |-> None, branch_name |-> None, access_token |-> None,
     repo |-> None, new_branch_name |-> None, target_repo |-> None,
     pr_number |-> None, message |-> None, description |-> None,
     comment_content |-> <<>>]

Init ==
    /\ todo = main
    /\ exc = FALSE
    /\ cwd = StartDir
    /\ cdStack = <<>>
    /\ local = NoLocals
    /\ log = <<>>
    /\ head = ""
    /\ commits = {}
    /\ remoteRefs = {}
    /\ openPRs = <<>>
    /\ nextNumber = 1
    /\ runs = 1

-----------------------------------------------------------------------------
(* Control flow. *)

At(op) == todo # <<>> /\ todo[1][1] = op

Arg == todo[1][2]

unwind_without_finally(stack) == <<>>

\* cd, lines 26-30: an exception leaves only the finally clauses of the
\* active cd() scopes to run
unwind(stack) == [i \in 1..Len(stack) |-> S("cd_exit")]

\* the statement completes (continue) or raises
Continue(continue) ==
    /\ todo' = IF continue THEN Tail(todo) ELSE unwind(cdStack)
    /\ exc' = ~continue

Platform == <<openPRs, nextNumber>>
Clone == <<head, commits>>
Dirs == <<cwd, cdStack>>

Entry ==
    [op |-> "", ok |-> TRUE, remote |-> "", ref |-> "", message |-> "",
     url |-> "", auth |-> "", status |-> 0, payload |-> <<>>, result |-> <<>>]

Logged(e) == log' = Append(log, e)

-----------------------------------------------------------------------------
(* cd, lines 20-30 *)

\* current_dir = getcwd(); chdir(path) succeeds or raises
cd_enter ==
    /\ At("cd_enter")
    /\ cdStack' = <<cwd>> \o cdStack
    /\ \E chdir_ok \in BOOLEAN :
        /\ cwd' = IF chdir_ok THEN REPO_DIR ELSE cwd
        /\ todo' = IF chdir_ok THEN Tail(todo) ELSE unwind(cdStack')
        /\ exc' = ~chdir_ok
    /\ UNCHANGED <<local, log, Clone, remoteRefs, Platform, runs>>

\* finally: chdir(current_dir)
cd_exit ==
    /\ At("cd_exit")
    /\ cwd' = Head(cdStack)
    /\ cdStack' = Tail(cdStack)
    /\ todo' = Tail(todo)
    /\ UNCHANGED <<exc, local, log, Clone, remoteRefs, Platform, runs>>

-----------------------------------------------------------------------------
(* main, lines 273-293 *)

\* lines 274-278: environ[...] raises KeyError on an absent variable,
\* environ.get(...) yields None (GHA_TOKEN_2 is read and never used)
main_env(in) ==
    /\ At("main_env")
    /\ \E event_name \in in.events, branch_name \in in.branches,
          access_token \in in.tokens :
        IF event_name = None
        THEN /\ Continue(FALSE)
             /\ UNCHANGED local
        ELSE IF branch_name = None
        THEN /\ Continue(FALSE)
             /\ local' = [local EXCEPT !.event_name = event_name]
        ELSE /\ Continue(TRUE)
             /\ local' = [local EXCEPT !.event_name = event_name,
                                       !.branch_name = branch_name,
                                       !.access_token = access_token]
    /\ UNCHANGED <<Dirs, log, Clone, remoteRefs, Platform, runs>>

\* _setup_git_author, lines 33-46: git config --global <key> <value>
git_config ==
    /\ At("git_config")
    /\ \E exit_ok \in GitExit :
        /\ Logged([Entry EXCEPT !.op = "git config", !.ref = Arg, !.ok = exit_ok])
        /\ Continue(check(exit_ok))
    /\ UNCHANGED <<Dirs, local, Clone, remoteRefs, Platform, runs>>

unknown_event_creates(event_name) ==
    IF event_name \in {"issue_comment", "pull_request"} THEN update_pr
    ELSE create_pr_with_push

\* lines 286-293: the flow an event name selects; <<>> for ValueError
flow_of(event_name) ==
    IF event_name \in {"schedule", "workflow_dispatch"} THEN create_pr_with_push
    ELSE IF event_name \in {"issue_comment", "pull_request"} THEN update_pr
    ELSE <<>>

main_dispatch ==
    /\ At("main_dispatch")
    /\ LET flow == flow_of(local.event_name[1]) IN
        IF flow = <<>>
        THEN Continue(FALSE)
        ELSE /\ todo' = flow \o Tail(todo)
             /\ exc' = FALSE
    /\ UNCHANGED <<Dirs, local, log, Clone, remoteRefs, Platform, runs>>

-----------------------------------------------------------------------------
(* git commands: subprocess.run([...], check=True) *)

\* lines 55 and 130: git checkout -B <new_branch_name>
git_checkout ==
    /\ At("git_checkout")
    /\ \E exit_ok \in GitExit :
        /\ Logged([Entry EXCEPT !.op = "git checkout -B",
                                !.ref = local.new_branch_name[1], !.ok = exit_ok])
        /\ head' = IF exit_ok THEN local.new_branch_name[1] ELSE head
        /\ Continue(check(exit_ok))
    /\ UNCHANGED <<Dirs, local, commits, remoteRefs, Platform, runs>>

\* line 56: git add -u
git_add ==
    /\ At("git_add")
    /\ \E exit_ok \in GitExit :
        /\ Logged([Entry EXCEPT !.op = "git add -u", !.ok = exit_ok])
        /\ Continue(check(exit_ok))
    /\ UNCHANGED <<Dirs, local, Clone, remoteRefs, Platform, runs>>

\* line 57: git commit -m <message>, on the branch checked out
git_commit ==
    /\ At("git_commit")
    /\ \E exit_ok \in GitExit :
        /\ Logged([Entry EXCEPT !.op = "git commit -m", !.ref = head,
                                !.message = local.message[1], !.ok = exit_ok])
        /\ commits' = IF exit_ok THEN commits \cup {<<head, local.message[1]>>}
                      ELSE commits
        /\ Continue(check(exit_ok))
    /\ UNCHANGED <<Dirs, local, head, remoteRefs, Platform, runs>>

\* lines 68-91: git push --force --set-upstream <remote> <branch_name>
git_push ==
    /\ At("git_push")
    /\ \E exit_ok \in GitExit :
        /\ Logged([Entry EXCEPT !.op = "git push --force --set-upstream",
                                !.remote = Arg,
                                !.ref = local.new_branch_name[1], !.ok = exit_ok])
        /\ remoteRefs' = IF exit_ok
                         THEN remoteRefs \cup {<<Arg, local.new_branch_name[1]>>}
                         ELSE remoteRefs
        /\ Continue(check(exit_ok))
    /\ UNCHANGED <<Dirs, local, Clone, Platform, runs>>

-----------------------------------------------------------------------------
(* The dependency query and the two texts derived from it. *)

\* lines 96-104 and 109-115: the query answers with a list of names; the
\* caller formats it
get_changed_dependencies(in) ==
    /\ At("get_changed_dependencies")
    /\ \E changed \in in.changed :
        /\ Logged([Entry EXCEPT !.op = "get_changed_dependencies",
                                !.ref = Arg, !.result = changed])
        /\ local' = IF Arg = "direct"
                    THEN [local EXCEPT !.message = Some(commit_message(changed))]
                    ELSE [local EXCEPT !.description = Some(long_description(changed))]
    /\ Continue(TRUE)
    /\ UNCHANGED <<Dirs, Clone, remoteRefs, Platform, runs>>

-----------------------------------------------------------------------------
(* create_pr_with_push, lines 118-145 *)

\* lines 122-128
create_pr_with_push_names(in) ==
    /\ At("create_pr_with_push_names")
    /\ \E repository \in in.repositories :
        local' = [local EXCEPT
                    !.new_branch_name = Some(new_branch_name_for(local.branch_name[1])),
                    !.repo = Some(environ_get(repository, <<"napari", "napari">>))]
    /\ Continue(TRUE)
    /\ UNCHANGED <<Dirs, log, Clone, remoteRefs, Platform, runs>>

\* what the platform answers to GET .../pulls?state=open&head=<head>:
\* the numbers of its open pull requests of that repository and head
Lookup(repo, qualified_head) ==
    LET matches(pr) == pr.repo = repo /\ pr.head = qualified_head
        found == SelectSeq(openPRs, matches)
    IN  [i \in 1..Len(found) |-> found[i].number]

\* list_pr_for_branch, lines 160-171; the request carries no token
list_pr_for_branch(in) ==
    /\ At("list_pr_for_branch")
    /\ LET repo == local.repo[1]
           qualified_head == org_name(repo) \o ":" \o local.new_branch_name[1]
           url == BASE_URL \o "/repos/" \o full_name(repo)
                    \o "/pulls?state=open&head=" \o qualified_head
           answers == IF in.lookup_any THEN Responses
                      ELSE {Lookup(full_name(repo), qualified_head)}
       IN \E status \in {200} \cup HttpError, json \in answers :
            LET ok == Succeeded(status) IN
            /\ Logged([Entry EXCEPT !.op = "GET", !.url = url, !.status = status,
                                    !.ok = ok,
                                    !.result = IF ok THEN json ELSE <<>>])
            /\ local' = IF ok THEN [local EXCEPT !.pr_number = first_number(json)]
                        ELSE local
            /\ Continue(raise_for_status(status))
    /\ UNCHANGED <<Dirs, Clone, remoteRefs, Platform, runs>>

\* lines 135-145
create_pr_with_push_branch ==
    /\ At("create_pr_with_push_branch")
    /\ todo' = (IF truthy(local.pr_number) THEN update_own_pr ELSE create_pr)
               \o Tail(todo)
    /\ UNCHANGED <<exc, Dirs, local, log, Clone, remoteRefs, Platform, runs>>

\* create_pr, lines 178-196: POST /repos/{repo}/pulls
create_pr_post ==
    /\ At("create_pr_post")
    /\ LET repo == local.repo[1]
           payload == [title |-> local.message[1],
                       body |-> local.description[1],
                       head |-> local.new_branch_name[1],
                       base |-> local.branch_name[1],
                       maintainer_can_modify |-> TRUE]
       IN \E status \in {201} \cup HttpError :
            LET ok == Succeeded(status) IN
            /\ Logged([Entry EXCEPT !.op = "POST create",
                          !.url = BASE_URL \o "/repos/" \o full_name(repo) \o "/pulls",
                          !.auth = "token " \o str(local.access_token),
                          !.payload = payload, !.status = status, !.ok = ok])
            /\ openPRs' = IF ok
                          THEN Append(openPRs,
                                 [number |-> nextNumber, repo |-> full_name(repo),
                                  head |-> org_name(repo) \o ":" \o payload.head,
                                  base |-> payload.base,
                                  title |-> payload.title, body |-> payload.body])
                          ELSE openPRs
            /\ nextNumber' = IF ok THEN nextNumber + 1 ELSE nextNumber
            /\ Continue(raise_for_status(status))
    /\ UNCHANGED <<Dirs, local, Clone, remoteRefs, runs>>

\* update_own_pr, lines 149-157: POST /repos/{repo}/pulls/{pr_number}
update_own_pr_post ==
    /\ At("update_own_pr_post")
    /\ LET repo == local.repo[1]
           number == local.pr_number[1]
           payload == [title |-> local.message[1], body |-> local.description[1]]
       IN \E status \in {200} \cup HttpError :
            LET ok == Succeeded(status) IN
            /\ Logged([Entry EXCEPT !.op = "POST update",
                          !.url = BASE_URL \o "/repos/" \o full_name(repo)
                                    \o "/pulls/" \o ToString(number),
                          !.auth = "token " \o str(local.access_token),
                          !.payload = payload, !.status = status, !.ok = ok])
            /\ openPRs' = IF ok
                          THEN [i \in 1..Len(openPRs) |->
                                  IF openPRs[i].number = number
                                     /\ openPRs[i].repo = full_name(repo)
                                  THEN [openPRs[i] EXCEPT !.title = payload.title,
                                                          !.body = payload.body]
                                  ELSE openPRs[i]]
                          ELSE openPRs
            /\ Continue(raise_for_status(status))
    /\ UNCHANGED <<Dirs, local, Clone, remoteRefs, nextNumber, runs>>

-----------------------------------------------------------------------------
(* update_pr, lines 220-257 *)

\* get_pr_number, lines 260-270
get_pr_number ==
    /\ At("get_pr_number")
    /\ \E value \in PrNumberStrings :
        LET number == python_int(value) IN
        /\ local' = [local EXCEPT !.pr_number = number]
        /\ Continue(number # None)
    /\ UNCHANGED <<Dirs, log, Clone, remoteRefs, Platform, runs>>

\* lines 226-228
update_pr_names ==
    /\ At("update_pr_names")
    /\ \E target_repo \in FullNames :
        local' = [local EXCEPT
                    !.target_repo = target_repo,
                    !.new_branch_name =
                        Some("auto-update-dependencies/" \o str(target_repo)
                             \o "/" \o local.branch_name[1])]
    /\ Continue(TRUE)
    /\ UNCHANGED <<Dirs, log, Clone, remoteRefs, Platform, runs>>

\* line 234: the manual compare link
compare_link(target_repo, branch_name, new_branch_name) ==
    "https://github.com/" \o str(target_repo) \o "/compare/" \o branch_name
        \o "...napari-bot:" \o new_branch_name \o "."

\* lines 231-239: the text, one element per fragment appended by +=
update_pr_content ==
    /\ At("update_pr_content")
    /\ local' = [local EXCEPT !.comment_content =
         <<local.description[1],
           "\n\nThis workflow cannot automatically update your PR or create PR to your repository. ",
           "But you could open such PR by clicking the link:",
           compare_link(local.target_repo, local.branch_name[1],
                        local.new_branch_name[1]),
           "\n\n",
           "You could also get the updated files from the ",
           "https://github.com/napari-bot/napari/tree/"
                \o local.new_branch_name[1] \o "/resources/constraints.",
           "Or ask the maintainers to provide you content of the constraints artifact.",
           "from the run https://github.com/PartSeg/napari/actions/runs/{os.environ.get('GITHUB_RUN_ID')}">>]
    /\ Continue(TRUE)
    /\ UNCHANGED <<Dirs, log, Clone, remoteRefs, Platform, runs>>

\* lines 249-256 and add_comment_to_pr, lines 199-217:
\* POST /repos/{repo}/issues/{pull_request_number}/comments, authorised by
\* GITHUB_TOKEN
add_comment_to_pr ==
    /\ At("add_comment_to_pr")
    /\ \E repository \in Repositories, github_token \in Tokens,
          status \in {201} \cup HttpError :
        LET repo == environ_get(repository, <<"napari", "napari">>)
            message == local.comment_content
                         \o <<"\n\n", "To open PR with this changes please click this link: ">>
            ok == Succeeded(status)
        IN
        /\ Logged([Entry EXCEPT !.op = "POST comment",
                      !.url = BASE_URL \o "/repos/" \o full_name(repo) \o "/issues/"
                                \o ToString(local.pr_number[1]) \o "/comments",
                      !.auth = "token " \o str(github_token),
                      !.payload = [body |-> message],
                      !.status = status, !.ok = ok])
        /\ Continue(raise_for_status(status))
    /\ UNCHANGED <<Dirs, local, Clone, remoteRefs, Platform, runs>>

-----------------------------------------------------------------------------
(* The CI system triggers the workflow again: a new process in a fresh     *)
(* clone; the remotes and the platform keep their state.                   *)

rerun ==
    /\ todo = <<>>
    /\ runs < MaxRuns
    /\ runs' = runs + 1
    /\ todo' = main
    /\ exc' = FALSE
    /\ cwd' = StartDir
    /\ cdStack' = <<>>
    /\ local' = NoLocals
    /\ log' = <<>>
    /\ head' = ""
    /\ commits' = {}
    /\ UNCHANGED <<remoteRefs, Platform>>

-----------------------------------------------------------------------------
(* One run on any trigger; the answer of the open-PR lookup is an input. *)

Next ==
    \/ main_env(AnyRun)
    \/ git_config
    \/ main_dispatch
    \/ cd_enter
    \/ cd_exit
    \/ git_checkout
    \/ git_add
    \/ git_commit
    \/ git_push
    \/ get_changed_dependencies(AnyRun)
    \/ create_pr_with_push_names(AnyRun)
    \/ list_pr_for_branch(AnyRun)
    \/ create_pr_with_push_branch
    \/ create_pr_post
    \/ update_own_pr_post
    \/ get_pr_number
    \/ update_pr_names
    \/ update_pr_content
    \/ add_comment_to_pr

Spec == Init /\ [][Next]_vars

(* Scheduled / dispatched runs one after another; the open-PR lookup       *)
(* answers from the platform's state.                                      *)

NextReruns ==
    \/ main_env(ScheduledRun)
    \/ git_config
    \/ main_dispatch
    \/ cd_enter
    \/ cd_exit
    \/ git_checkout
    \/ git_add
    \/ git_commit
    \/ git_push
    \/ get_changed_dependencies(ScheduledRun)
    \/ create_pr_with_push_names(ScheduledRun)
    \/ list_pr_for_branch(ScheduledRun)
    \/ create_pr_with_push_branch
    \/ create_pr_post
    \/ update_own_pr_post
    \/ rerun

SpecReruns == Init /\ [][NextReruns]_vars

-----------------------------------------------------------------------------
(* Vocabulary of the properties. *)

Done == todo = <<>> /\ ~exc

Aborted == todo = <<>> /\ exc

Scheduled == local.event_name \in {Some("schedule"), Some("workflow_dispatch")}

Commented == local.event_name \in {Some("issue_comment"), Some("pull_request")}

PushOp == "git push --force --set-upstream"

HttpOps == {"GET", "POST create", "POST update", "POST comment"}

\* branch checkout, commit, push or HTTP request
Acting(e) == e.op \in {"git checkout -B", "git commit -m", PushOp} \cup HttpOps

Command(e) == e.op \notin {"git config", "get_changed_dependencies"}

\* the git commands after the author setup and the HTTP requests, in order
Commands == SelectSeq(log, Command)

Last(s) == s[Len(s)]

\* the working branch of a scheduled run on branch b, as the specification
\* words it
WorkingBranch(b) ==
    IF b = "main" THEN "auto-update-dependencies"
    ELSE "auto-update-dependencies-" \o b

\* the answer of the latest direct-dependency query before log entry i
DirectBefore(i) ==
    LET k == CHOOSE k \in 1..(i - 1) :
                /\ log[k].op = "get_changed_dependencies" /\ log[k].ref = "direct"
                /\ \A m \in (k + 1)..(i - 1) :
                     ~(log[m].op = "get_changed_dependencies" /\ log[m].ref = "direct")
    IN log[k].result

-----------------------------------------------------------------------------
\* C1: the event kind selects exactly one flow: a scheduled or dispatched
\* run never pushes to the bot remote nor posts a comment and, completed, has
\* created or updated a PR; a comment or pull_request run never pushes to
\* origin nor posts a create-PR or update-PR request and, completed, has
\* posted a comment; a run on any other event kind never completes and
\* performs no checkout, commit, push or HTTP request.
DispatchSelectsOneFlow ==
    /\ Scheduled =>
         /\ \A i \in 1..Len(log) :
              /\ ~(log[i].op = PushOp /\ log[i].remote = "napari-bot")
              /\ log[i].op # "POST comment"
         /\ Done => Last(log).op \in {"POST create", "POST update"}
    /\ Commented =>
         /\ \A i \in 1..Len(log) :
              /\ ~(log[i].op = PushOp /\ log[i].remote = "origin")
              /\ log[i].op \notin {"GET", "POST create", "POST update"}
         /\ Done => Last(log).op = "POST comment"
    /\ (~Scheduled /\ ~Commented) =>
         /\ \A i \in 1..Len(log) : ~Acting(log[i])
         /\ ~Done

UnknownEventIsFatal ==
    /\ local.event_name = Some("push")
    /\ Aborted
    /\ Len(log) = 2
    /\ Last(log).ok

-----------------------------------------------------------------------------
\* C3: in a completed scheduled run on branch b whose lookup found no open
\* PR the commands are, in order: checkout of the working branch, git add,
\* commit with the derived message, force-push of the working branch to
\* origin, the lookup, the create-PR POST with head the working branch and
\* base b; and no create-PR or update-PR POST is ever issued before a
\* successful force-push of the working branch to origin.
ScheduledRunOrder ==
    Scheduled /\ local.branch_name # None =>
      LET b == local.branch_name[1]
          w == WorkingBranch(b)
          c == Commands
      IN
      /\ (Done /\ local.pr_number = None) =>
           /\ Len(c) = 6
           /\ c[1].op = "git checkout -B" /\ c[1].ref = w
           /\ c[2].op = "git add -u"
           /\ c[3].op = "git commit -m" /\ c[3].ref = w
           /\ \E k \in 1..Len(log) :
                /\ log[k].op = "get_changed_dependencies" /\ log[k].ref = "direct"
                /\ log[k + 1].op = "git add -u"
                /\ c[3].message = commit_message(log[k].result)
           /\ c[4].op = PushOp /\ c[4].remote = "origin" /\ c[4].ref = w
           /\ c[5].op = "GET"
           /\ c[6].op = "POST create"
           /\ c[6].payload.head = w /\ c[6].payload.base = b
      /\ \A i \in 1..Len(log) :
           log[i].op \in {"POST create", "POST update"} =>
             \E j \in 1..(i - 1) :
               /\ log[j].op = PushOp /\ log[j].remote = "origin"
               /\ log[j].ref = w /\ log[j].ok

ScheduledMainCreatesPr ==
    /\ Done
    /\ local.event_name = Some("schedule")
    /\ local.branch_name = Some("main")
    /\ local.pr_number = None
    /\ Last(log).op = "POST create"
    /\ Last(log).payload.base = "main"
    /\ \E i \in 1..Len(log) :
         log[i].op = "git commit -m" /\ log[i].message = "Update indirect dependencies"

-----------------------------------------------------------------------------
\* C4: a completed comment / pull_request run on branch b with PR number n
\* checks out and commits on "auto-update-dependencies/{FULL_NAME}/" + b,
\* force-pushes that branch to the bot remote and then posts exactly one
\* comment, to issue n, whose body holds the compare link naming that same
\* branch; no comment is ever posted before that push has succeeded.
CrossForkRunOrder ==
    (Commented /\ local.new_branch_name # None) =>
      LET b == local.branch_name[1]
          w == "auto-update-dependencies/" \o str(local.target_repo) \o "/" \o b
          c == Commands
      IN
      /\ Done =>
           /\ Len(c) = 5
           /\ c[1].op = "git checkout -B" /\ c[1].ref = w
           /\ c[2].op = "git add -u"
           /\ c[3].op = "git commit -m" /\ c[3].ref = w
           /\ c[4].op = PushOp /\ c[4].remote = "napari-bot" /\ c[4].ref = w
           /\ c[5].op = "POST comment"
           /\ \E repo \in {"napari/napari", "PartSeg/napari"} :
                c[5].url = BASE_URL \o "/repos/" \o repo \o "/issues/"
                             \o ToString(local.pr_number[1]) \o "/comments"
           /\ \E k \in 1..Len(c[5].payload.body) :
                c[5].payload.body[k] =
                    "https://github.com/" \o str(local.target_repo) \o "/compare/"
                        \o b \o "...napari-bot:" \o w \o "."
      /\ \A i \in 1..Len(log) :
           log[i].op = "POST comment" =>
             \E j \in 1..(i - 1) :
               /\ log[j].op = PushOp /\ log[j].remote = "napari-bot"
               /\ log[j].ref = w /\ log[j].ok

PullRequestRunComments ==
    /\ Done
    /\ local.event_name = Some("pull_request")
    /\ local.branch_name = Some("feature-x")
    /\ local.pr_number = Some(42)
    /\ local.target_repo = Some("contributor/napari")
    /\ Last(log).op = "POST comment"
    /\ <<"napari-bot", "auto-update-dependencies/contributor/napari/feature-x">>
         \in remoteRefs

-----------------------------------------------------------------------------
-----------------------------------------------------------------------------
(* C6 *)

CommitsLogged ==
    {<<log[i].ref, log[i].message>> :
        i \in {j \in 1..Len(log) : log[j].op = "git commit -m" /\ log[j].ok}}

PushesLogged ==
    {<<log[i].remote, log[i].ref>> :
        i \in {j \in 1..Len(log) : log[j].op = PushOp /\ log[j].ok}}

Posted(op) == \E i \in 1..Len(log) : log[i].op = op /\ log[i].ok

AllEffects ==
    /\ CommitsLogged # {}
    /\ PushesLogged # {}
    /\ Scheduled => Posted("POST create") \/ Posted("POST update")
    /\ Commented => Posted("POST comment")

NoEffects ==
    /\ commits = {}
    /\ remoteRefs = {}
    /\ openPRs = <<>>
    /\ ~Posted("POST create") /\ ~Posted("POST update") /\ ~Posted("POST comment")

\* C6 as claimed: a run that aborts leaves none of its effects in place and
\* a run that does not abort has performed all of them.
AllOrNothing ==
    /\ Aborted => NoEffects
    /\ Done => AllEffects

\* C6 as amended: a run that does not abort has performed all of its
\* effects; at every point of a run, aborted or not, the effects in place
\* are exactly those of the steps that succeeded before it (nothing is rolled
\* back), and a successful PR request was preceded by the commit and the push.
EffectsUpToFailureStay ==
    /\ Done => AllEffects
    /\ commits = CommitsLogged
    /\ remoteRefs = PushesLogged
    /\ (Len(openPRs) = 1) = Posted("POST create")
    /\ Len(openPRs) <= 1
    /\ (Posted("POST create") \/ Posted("POST update") \/ Posted("POST comment"))
         => CommitsLogged # {} /\ PushesLogged # {}

AbortedAfterPush ==
    /\ Aborted
    /\ commits # {}
    /\ <<"origin", "auto-update-dependencies">> \in remoteRefs
    /\ ~Last(log).ok
    /\ Last(log).op = "GET"

-----------------------------------------------------------------------------
(* C8 *)

RECURSIVE Listed(_)
\* the names, each between backticks, separated by ", ", in the given order
Listed(xs) ==
    IF Len(xs) = 1 THEN Backtick \o xs[1] \o Backtick
    ELSE Listed(SubSeq(xs, 1, Len(xs) - 1)) \o ", "
            \o Backtick \o xs[Len(xs)] \o Backtick

Derived(xs) ==
    IF xs = <<>> THEN "Update indirect dependencies" ELSE "Update " \o Listed(xs)

\* C8: every commit message, and the title of every PR created or updated,
\* is "Update indirect dependencies" when the direct-dependency query just
\* before it answered the empty list, and otherwise "Update " followed by
\* the answered names in backticks, joined by ", ", in the answered order.
CommitMessageRule ==
    \A i \in 1..Len(log) :
      /\ log[i].op = "git commit -m" => log[i].message = Derived(DirectBefore(i))
      /\ log[i].op \in {"POST create", "POST update"} =>
           log[i].payload.title = Derived(DirectBefore(i))

TwoNamesInOrder ==
    /\ Done
    /\ \E i \in 1..Len(log) :
         /\ log[i].op = "git commit -m"
         /\ DirectBefore(i) = <<"vispy", "numpy">>
         /\ log[i].message = "Update " \o Backtick \o "vispy" \o Backtick \o ", "
                                \o Backtick \o "numpy" \o Backtick
    /\ Last(log).op = "POST update"
    /\ Last(log).payload.title = "Update indirect dependencies"

-----------------------------------------------------------------------------
\* C9: outside every cd() scope the working directory is the one the run
\* started in, inside a scope the directory to restore is that one, and a
\* run that has ended, completed or aborted, has left every scope.
WorkingDirectoryRestored ==
    /\ cdStack = <<>> => cwd = StartDir
    /\ \A k \in 1..Len(cdStack) : cdStack[k] = StartDir
    /\ todo = <<>> => cdStack = <<>> /\ cwd = StartDir

RestoredAfterFailedCommit ==
    /\ Aborted
    /\ cwd = StartDir
    /\ cdStack = <<>>
    /\ log # <<>>
    /\ Last(log).op = "git commit -m"
    /\ ~Last(log).ok

-----------------------------------------------------------------------------
\* C2: whatever the open-PR lookup answers, an empty answer leads to a
\* create-PR POST and no update-PR POST, and an answer with at least one
\* entry leads to an update-PR POST addressed to the first entry's number
\* and no create-PR POST.
LookupDecides ==
    \A i \in 1..Len(log) :
      (log[i].op = "GET" /\ log[i].ok) =>
        IF log[i].result = <<>>
        THEN /\ \A j \in 1..Len(log) : log[j].op # "POST update"
             /\ Done => Last(log).op = "POST create"
        ELSE /\ \A j \in 1..Len(log) : log[j].op # "POST create"
             /\ \A j \in 1..Len(log) :
                  log[j].op = "POST update" =>
                    log[j].url = BASE_URL \o "/repos/" \o full_name(local.repo[1])
                                   \o "/pulls/" \o ToString(log[i].result[1])
             /\ Done => Last(log).op = "POST update"

-----------------------------------------------------------------------------
(* C7 *)

\* main has read the environment and found no access token
TokenAbsent == local.branch_name # None /\ local.access_token = None

\* update_pr has read the environment and found no target repository name
TargetRepositoryAbsent ==
    Commented /\ local.new_branch_name # None /\ local.target_repo = None

\* C7: once a required environment value has been found absent, the run has
\* performed, and performs, no checkout, commit, push or HTTP request.
ConfigurationFailureIsFatal ==
    (TokenAbsent \/ TargetRepositoryAbsent) =>
        \A i \in 1..Len(log) : ~Acting(log[i])

-----------------------------------------------------------------------------
(* C10 *)

SameBranch(p, q) == p.repo = q.repo /\ p.head = q.head

\* C10: after any sequence of scheduled / dispatched runs, each completed
\* or aborted at any step, the platform holds at most one open PR per
\* repository and working branch; a completed run whose lookup found the PR
\* has posted an update and no create request, and that PR carries the title
\* and body of the update.
AtMostOneOpenPr ==
    /\ \A i, j \in 1..Len(openPRs) : SameBranch(openPRs[i], openPRs[j]) => i = j
    /\ Done =>
         \A i \in 1..Len(log) :
           (log[i].op = "GET" /\ log[i].result # <<>>) =>
             /\ \A j \in 1..Len(log) : log[j].op # "POST create"
             /\ Last(log).op = "POST update"
             /\ \E k \in 1..Len(openPRs) :
                  /\ openPRs[k].number = log[i].result[1]
                  /\ openPRs[k].title = Last(log).payload.title
                  /\ openPRs[k].body = Last(log).payload.body

SecondRunUpdates ==
    /\ runs = 2
    /\ Done
    /\ Last(log).op = "POST update"
    /\ Len(openPRs) = 1
    /\ openPRs[1].head = "napari:auto-update-dependencies"
    /\ openPRs[1].title = Last(log).payload.title

====
